---- MODULE Spec2Model ----
(***************************************************************************)
(* Model of the SonarQube deployment descriptor (src/main.py).             *)
(*                                                                         *)
(* SonarQubeStack.__init__ is a straight-line sequence of construct        *)
(* declarations.  The model executes it statement by statement, building   *)
(* the construct graph; app.synth() freezes the graph into a template and  *)
(* the provisioning engine realises it in an environment, replacing the    *)
(* deferred values (tokens) by the values of that environment.             *)
(*                                                                         *)
(* A resource is a record whose fields are sequences of parts.  A part is  *)
(* a literal, a number, a flag, a reference to another construct, a        *)
(* deferred attribute of another construct, a subnet configuration or a    *)
(* security group rule.  A Python f-string is the sequence of its literal  *)
(* segments and interpolated values.                                       *)
(***************************************************************************)
EXTENDS Integers, Sequences, FiniteSets, TLC

VARIABLES pc, graph, order, env, template, resolved

vars == <<pc, graph, order, env, template, resolved>>

----------------------------------------------------------------------------
(* Bounds of the environments the descriptor is realised in. *)

MaxZones == 3
AddrBits == 3

Addresses == 0 .. (2 ^ AddrBits) - 1
Cidrs == { c \in [prefix : 0 .. 3, len : 1 .. 2] : c.prefix < 2 ^ c.len }
Passwords == { "pw-a", "pw-b" }
Hosts == { "db-1.rds.internal", "db-2.rds.internal" }
Ports == { 22, 5432, 9000 }
Protocols == { "tcp", "udp" }
Flows == [dir : { "in", "out" }, addr : Addresses, protocol : Protocols, port : Ports]

Environments == [zones : 1 .. MaxZones, cidr : Cidrs, password : Passwords, address : Hosts]

----------------------------------------------------------------------------
(* Parts of a field value. *)

Lit(s) == [t |-> "lit", v |-> s]
Num(n) == [t |-> "num", n |-> n]
Bool(b) == [t |-> "bool", b |-> b]
Ref(r) == [t |-> "ref", id |-> r]
Tok(r, a) == [t |-> "tok", id |-> r, attr |-> a]
Cidr(p, l) == [t |-> "cidr", prefix |-> p, len |-> l]
Subnet(n, st) == [t |-> "subnet", name |-> n, subnet_type |-> st]
Rule(peer, proto, port, desc) ==
    [t |-> "rule", peer |-> peer, protocol |-> proto, port |-> port, description |-> desc]

Min(a, b) == IF a < b THEN a ELSE b

Range(s) == { s[i] : i \in DOMAIN s }

----------------------------------------------------------------------------
(* The construct declarations of SonarQubeStack.__init__, each a function  *)
(* from the graph built so far to the graph with the construct added.      *)

deletion_protection == FALSE

Vpc_ThreeZones(g) ==
    g @@ ("vpc" :>
        [type |-> <<Lit("ec2.Vpc")>>,
         max_azs |-> <<Num(3)>>,
         subnet_configuration |->
             <<Subnet("public", "PUBLIC"), Subnet("private", "PRIVATE_WITH_EGRESS")>>])

Vpc(g) ==
    g @@ ("vpc" :>
        [type |-> <<Lit("ec2.Vpc")>>,
         max_azs |-> <<Num(2)>>,
         subnet_configuration |->
             <<Subnet("public", "PUBLIC"), Subnet("private", "PRIVATE_WITH_EGRESS")>>])

Secret_OtherUser(g) ==
    g @@ ("db_secret" :>
        [type |-> <<Lit("secretsmanager.Secret")>>,
         secret_string_template |-> <<Lit("username"), Lit("sonarqube")>>,
         generate_string_key |-> <<Lit("password")>>])

Secret(g) ==
    g @@ ("db_secret" :>
        [type |-> <<Lit("secretsmanager.Secret")>>,
         secret_string_template |-> <<Lit("username"), Lit("sonar")>>,
         generate_string_key |-> <<Lit("password")>>])

SubnetGroup(g) ==
    g @@ ("db_subnet_group" :>
        [type |-> <<Lit("rds.SubnetGroup")>>,
         vpc |-> <<Ref("vpc")>>,
         subnet_group_name |-> <<Lit("sonarqube-db-subnet-group")>>,
         description |-> <<Lit("Subnet group for SonarQube database")>>])

(* ec2.SecurityGroup: allow_all_outbound adds the allow-all egress rule,   *)
(* otherwise the group has no rule that matches any traffic.               *)
SecurityGroup(vpcId, desc, allow_all_outbound) ==
    [type |-> <<Lit("ec2.SecurityGroup")>>,
     vpc |-> <<Ref(vpcId)>>,
     description |-> desc,
     allow_all_outbound |-> <<Bool(allow_all_outbound)>>,
     ingress |-> <<>>,
     egress |-> IF allow_all_outbound
                THEN <<Rule(Cidr(0, 0), "all", 0, "Allow all outbound traffic by default")>>
                ELSE <<>>]

DbSecurityGroup(g) ==
    g @@ ("db_security_group" :>
        SecurityGroup("vpc", <<Lit("Allow SonarQube ECS to access RDS")>>, FALSE))

add_ingress_rule_AnyIpv4(g) ==
    [g EXCEPT !["db_security_group"] =
        [@ EXCEPT !.ingress =
            Append(@, Rule(Cidr(0, 0), "tcp", 5432,
                           "Allow SonarQube ECS to access RDS"))]]

add_ingress_rule(g) ==
    [g EXCEPT !["db_security_group"] =
        [@ EXCEPT !.ingress =
            Append(@, Rule(Tok("vpc", "vpc_cidr_block"), "tcp", 5432,
                           "Allow SonarQube ECS to access RDS"))]]

(* A database declared without credentials: the engine generates its own. *)
DatabaseInstance_NoCredentials(g, dp) ==
    g @@ ("database" :>
        [type |-> <<Lit("rds.DatabaseInstance")>>,
         engine |-> <<Lit("postgres"), Lit("14")>>,
         instance_type |-> <<Lit("BURSTABLE3"), Lit("MEDIUM")>>,
         vpc |-> <<Ref("vpc")>>,
         vpc_subnets |-> <<Ref("db_subnet_group")>>,
         security_groups |-> <<Ref("db_security_group")>>,
         database_name |-> <<Lit("sonarqube")>>,
         allocated_storage |-> <<Num(20)>>,
         storage_type |-> <<Lit("GP2")>>,
         multi_az |-> <<Bool(TRUE)>>,
         removal_policy |-> <<Lit("DESTROY")>>,
         deletion_protection |-> <<Bool(dp)>>])

(* A database whose removal policy follows the protection flag. *)
DatabaseInstance_RetainWhenProtected(g, dp) ==
    g @@ ("database" :>
        [type |-> <<Lit("rds.DatabaseInstance")>>,
         engine |-> <<Lit("postgres"), Lit("14")>>,
         instance_type |-> <<Lit("BURSTABLE3"), Lit("MEDIUM")>>,
         vpc |-> <<Ref("vpc")>>,
         credentials |-> <<Ref("db_secret")>>,
         vpc_subnets |-> <<Ref("db_subnet_group")>>,
         security_groups |-> <<Ref("db_security_group")>>,
         database_name |-> <<Lit("sonarqube")>>,
         allocated_storage |-> <<Num(20)>>,
         storage_type |-> <<Lit("GP2")>>,
         multi_az |-> <<Bool(TRUE)>>,
         removal_policy |-> <<Lit(IF dp THEN "RETAIN" ELSE "DESTROY")>>,
         deletion_protection |-> <<Bool(dp)>>])

DatabaseInstance(g, dp) ==
    g @@ ("database" :>
        [type |-> <<Lit("rds.DatabaseInstance")>>,
         engine |-> <<Lit("postgres"), Lit("14")>>,
         instance_type |-> <<Lit("BURSTABLE3"), Lit("MEDIUM")>>,
         vpc |-> <<Ref("vpc")>>,
         credentials |-> <<Ref("db_secret")>>,
         vpc_subnets |-> <<Ref("db_subnet_group")>>,
         security_groups |-> <<Ref("db_security_group")>>,
         database_name |-> <<Lit("sonarqube")>>,
         allocated_storage |-> <<Num(20)>>,
         storage_type |-> <<Lit("GP2")>>,
         multi_az |-> <<Bool(TRUE)>>,
         removal_policy |-> <<Lit("DESTROY")>>,
         deletion_protection |-> <<Bool(dp)>>])

Cluster(g) ==
    g @@ ("cluster" :>
        [type |-> <<Lit("ecs.Cluster")>>,
         vpc |-> <<Ref("vpc")>>])

(* ecs.FargateTaskDefinition creates the task role with the definition. *)
FargateTaskDefinition(g) ==
    g @@ ("task_role" :>
            [type |-> <<Lit("iam.Role")>>,
             assumed_by |-> <<Lit("ecs-tasks.amazonaws.com")>>])
      @@ ("task_definition" :>
            [type |-> <<Lit("ecs.FargateTaskDefinition")>>,
             cpu |-> <<Num(2048)>>,
             memory_limit_mib |-> <<Num(4096)>>,
             task_role |-> <<Ref("task_role")>>])

LogGroup(g) ==
    g @@ ("log_group" :>
        [type |-> <<Lit("logs.LogGroup")>>,
         log_group_name |-> <<Lit("/ecs/sonarqube")>>,
         removal_policy |-> <<Lit("DESTROY")>>])

(* db_secret.secret_value.unsafe_unwrap(): the deferred value of the       *)
(* secret's whole secret string.                                           *)
unsafe_unwrap(secretId) == Tok(secretId, "secret_value")

SONAR_JDBC_URL_Placeholder ==
    <<Lit("jdbc:postgresql://"), Lit("localhost"), Lit(":"), Num(5432),
      Lit("/"), Lit("sonarqube")>>

SONAR_JDBC_URL_WithPassword ==
    <<Lit("jdbc:postgresql://"),
      Tok("database", "db_instance_endpoint_address"),
      Lit(":"),
      Tok("database", "db_instance_endpoint_port"),
      Lit("/"),
      Lit("sonarqube"),
      Lit("?password="),
      unsafe_unwrap("db_secret")>>

(* The f-string of SONAR_JDBC_URL: literal segments and deferred values. *)
SONAR_JDBC_URL ==
    <<Lit("jdbc:postgresql://"),
      Tok("database", "db_instance_endpoint_address"),
      Lit(":"),
      Tok("database", "db_instance_endpoint_port"),
      Lit("/"),
      Lit("sonarqube")>>

(* task_definition.add_container; the awslogs driver makes the task        *)
(* definition obtain its execution role.  The upper-case fields are the    *)
(* entries of the container's environment.                                 *)
add_container(g) ==
    g @@ ("execution_role" :>
            [type |-> <<Lit("iam.Role")>>,
             assumed_by |-> <<Lit("ecs-tasks.amazonaws.com")>>])
      @@ ("container" :>
            [type |-> <<Lit("ecs.ContainerDefinition")>>,
             task_definition |-> <<Ref("task_definition")>>,
             execution_role |-> <<Ref("execution_role")>>,
             image |-> <<Lit("sonarqube:enterprise")>>,
             memory_limit_mib |-> <<Num(4096)>>,
             cpu |-> <<Num(2048)>>,
             logging |-> <<Lit("awslogs"), Lit("sonarqube"), Ref("log_group")>>,
             SONAR_JDBC_URL |-> SONAR_JDBC_URL,
             SONAR_JDBC_USERNAME |-> <<Lit("sonar")>>,
             SONAR_JDBC_PASSWORD |-> <<unsafe_unwrap("db_secret")>>,
             SONAR_WEB_JAVAOPTS |->
                 <<Lit("-Xmx2048m -Xms256m -XX:+HeapDumpOnOutOfMemoryError")>>,
             SONAR_SEARCH_JAVAOPTS |->
                 <<Lit("-Xmx2048m -Xms256m -XX:+HeapDumpOnOutOfMemoryError")>>,
             port_mappings |-> <<Num(9000)>>])

ServiceSecurityGroup(g) ==
    g @@ ("service_sg" :> SecurityGroup("vpc", <<>>, TRUE))

(* ecs_patterns.ApplicationLoadBalancedFargateService: the service, its    *)
(* load balancer and the target group, whose health check starts at the    *)
(* load balancer's generic default path.                                   *)
ApplicationLoadBalancedFargateService(g) ==
    g @@ ("target_group" :>
            [type |-> <<Lit("elbv2.ApplicationTargetGroup")>>,
             vpc |-> <<Ref("vpc")>>,
             health_check_path |-> <<Lit("/")>>])
      @@ ("service" :>
            [type |-> <<Lit("ecs_patterns.ApplicationLoadBalancedFargateService")>>,
             cluster |-> <<Ref("cluster")>>,
             task_definition |-> <<Ref("task_definition")>>,
             public_load_balancer |-> <<Bool(TRUE)>>,
             desired_count |-> <<Num(1)>>,
             security_groups |-> <<Ref("service_sg")>>,
             target_group |-> <<Ref("target_group")>>])

configure_health_check_Default(g) ==
    [g EXCEPT ![g["service"].target_group[1].id] =
        [@ EXCEPT !.health_check_path = <<Lit("/")>>]]

configure_health_check(g) ==
    [g EXCEPT ![g["service"].target_group[1].id] =
        [@ EXCEPT !.health_check_path = <<Lit("/sessions/new")>>]]

grant_read_write(g) ==
    g @@ ("db_secret_grant" :>
        [type |-> <<Lit("iam.Grant")>>,
         grantee |-> g[g["service"].task_definition[1].id].task_role,
         actions |-> <<Lit("secretsmanager:GetSecretValue"),
                       Lit("secretsmanager:DescribeSecret"),
                       Lit("secretsmanager:PutSecretValue"),
                       Lit("secretsmanager:UpdateSecret")>>,
         secret |-> <<Ref("db_secret")>>])

(* db_secret.grant_read(service.task_definition.task_role) *)
grant_read(g) ==
    g @@ ("db_secret_grant" :>
        [type |-> <<Lit("iam.Grant")>>,
         grantee |-> g[g["service"].task_definition[1].id].task_role,
         actions |-> <<Lit("secretsmanager:GetSecretValue"),
                       Lit("secretsmanager:DescribeSecret")>>,
         secret |-> <<Ref("db_secret")>>])

Statements_ContainerBeforeDatabase ==
    <<"vpc", "db_secret", "db_subnet_group", "db_security_group", "add_ingress_rule",
      "cluster", "task_definition", "log_group", "container", "database", "service_sg",
      "service", "configure_health_check", "grant_read", "synth">>

(* The statements of __init__ and of the module body, in program order. *)
Statements ==
    <<"vpc", "db_secret", "db_subnet_group", "db_security_group", "add_ingress_rule",
      "database", "cluster", "task_definition", "log_group", "container", "service_sg",
      "service", "configure_health_check", "grant_read", "synth">>

IndexOf(seq, x) == CHOOSE i \in DOMAIN seq : seq[i] = x

NextPc(p) ==
    IF IndexOf(Statements, p) < Len(Statements)
    THEN Statements[IndexOf(Statements, p) + 1]
    ELSE "synthesized"

EmptyGraph == [r \in {} |-> <<>>]

(* The whole graph __init__ builds, as a function of the flag. *)
Build(dp) ==
    LET network == Cluster(DatabaseInstance(add_ingress_rule(DbSecurityGroup(
                       SubnetGroup(Secret(Vpc(EmptyGraph))))), dp))
        task == add_container(LogGroup(FargateTaskDefinition(network)))
    IN  grant_read(configure_health_check(
            ApplicationLoadBalancedFargateService(ServiceSecurityGroup(task))))

----------------------------------------------------------------------------
(* Realisation of the template by the provisioning engine: a deferred      *)
(* value becomes the value the environment gives the attribute.            *)

EngineDefaultPort(engine) ==
    CASE engine = "postgres" -> 5432
      [] engine = "mysql" -> 3306
      [] OTHER -> 0

ListenPort(db) ==
    IF "port" \in DOMAIN db THEN db.port[1].n ELSE EngineDefaultPort(db.engine[1].v)

ResolveTok(p, g, e) ==
    CASE p.attr = "vpc_cidr_block" /\ p.id = "vpc" ->
            <<Cidr(e.cidr.prefix, e.cidr.len)>>
      [] p.attr = "db_instance_endpoint_address" /\ p.id = "database" ->
            <<Lit(e.address)>>
      [] p.attr = "db_instance_endpoint_port" /\ p.id = "database" ->
            <<Num(ListenPort(g[p.id]))>>
      [] p.attr = "secret_value" ->
            g[p.id].secret_string_template \o g[p.id].generate_string_key
                \o <<Lit(e.password)>>
      [] OTHER -> <<p>>

ResolvePart(p, g, e) ==
    CASE p.t = "tok" -> ResolveTok(p, g, e)
      [] p.t = "rule" ->
            IF p.peer.t = "tok"
            THEN <<[p EXCEPT !.peer = ResolveTok(p.peer, g, e)[1]]>>
            ELSE <<p>>
      [] OTHER -> <<p>>

RECURSIVE ResolveValue(_, _, _)
ResolveValue(v, g, e) ==
    IF Len(v) = 0 THEN <<>>
    ELSE ResolvePart(Head(v), g, e) \o ResolveValue(Tail(v), g, e)

(* The zones a Vpc is spread over: the first max_azs zones of the region. *)
ZonesUsed(vpcRes, e) == Min(vpcRes.max_azs[1].n, e.zones)

ResolveResource(r, g, e) ==
    LET fields == [f \in DOMAIN g[r] |-> ResolveValue(g[r][f], g, e)]
    IN  CASE g[r].type = <<Lit("ec2.Vpc")>> ->
                  ("availability_zones" :> <<Num(ZonesUsed(g[r], e))>>)
                      @@ ("vpc_cidr_block" :> <<Cidr(e.cidr.prefix, e.cidr.len)>>)
                      @@ fields
          [] g[r].type = <<Lit("rds.DatabaseInstance")>> ->
                  ("db_instance_endpoint_address" :> <<Lit(e.address)>>)
                      @@ ("db_instance_endpoint_port" :> <<Num(ListenPort(g[r]))>>)
                      @@ fields
          [] OTHER -> fields

Resolve(g, e) == [r \in DOMAIN g |-> ResolveResource(r, g, e)]

(* Address matching of a CIDR block and rule matching of a security group. *)
InCidr(a, c) == a \div (2 ^ (AddrBits - c.len)) = c.prefix

RuleMatches(rule, f) ==
    /\ rule.peer.t = "cidr"
    /\ InCidr(f.addr, rule.peer)
    /\ \/ rule.protocol = "all"
       \/ rule.protocol = f.protocol /\ rule.port = f.port

Admits(sg, f) ==
    IF f.dir = "in"
    THEN \E i \in DOMAIN sg.ingress : RuleMatches(sg.ingress[i], f)
    ELSE \E i \in DOMAIN sg.egress : RuleMatches(sg.egress[i], f)

----------------------------------------------------------------------------
(* The program: __init__ statement by statement, then app.synth(), then    *)
(* the engine's deployment of the synthesized template.                    *)

Init ==
    /\ pc = "vpc"
    /\ graph = EmptyGraph
    /\ order = <<>>
    /\ env \in Environments
    /\ template = EmptyGraph
    /\ resolved = EmptyGraph

Declare(stmt, g) ==
    /\ pc = stmt
    /\ graph' = g
    /\ order' = Append(order, stmt)
    /\ pc' = NextPc(stmt)
    /\ UNCHANGED <<env, template, resolved>>

DeclareVpc == Declare("vpc", Vpc(graph))
DeclareSecret == Declare("db_secret", Secret(graph))
DeclareSubnetGroup == Declare("db_subnet_group", SubnetGroup(graph))
DeclareDbSecurityGroup == Declare("db_security_group", DbSecurityGroup(graph))
AddIngressRule == Declare("add_ingress_rule", add_ingress_rule(graph))
DeclareDatabase == Declare("database", DatabaseInstance(graph, deletion_protection))
DeclareCluster == Declare("cluster", Cluster(graph))
DeclareTaskDefinition == Declare("task_definition", FargateTaskDefinition(graph))
DeclareLogGroup == Declare("log_group", LogGroup(graph))
AddContainer == Declare("container", add_container(graph))
DeclareServiceSecurityGroup == Declare("service_sg", ServiceSecurityGroup(graph))
DeclareService == Declare("service", ApplicationLoadBalancedFargateService(graph))
ConfigureHealthCheck == Declare("configure_health_check", configure_health_check(graph))
GrantRead == Declare("grant_read", grant_read(graph))

Synth ==
    /\ pc = "synth"
    /\ template' = graph
    /\ order' = Append(order, "synth")
    /\ pc' = NextPc("synth")
    /\ UNCHANGED <<graph, env, resolved>>

Deploy ==
    /\ pc = "synthesized"
    /\ resolved' = Resolve(template, env)
    /\ pc' = "deployed"
    /\ UNCHANGED <<graph, order, env, template>>

Next ==
    \/ DeclareVpc
    \/ DeclareSecret
    \/ DeclareSubnetGroup
    \/ DeclareDbSecurityGroup
    \/ AddIngressRule
    \/ DeclareDatabase
    \/ DeclareCluster
    \/ DeclareTaskDefinition
    \/ DeclareLogGroup
    \/ AddContainer
    \/ DeclareServiceSecurityGroup
    \/ DeclareService
    \/ ConfigureHealthCheck
    \/ GrantRead
    \/ Synth
    \/ Deploy

Spec == Init /\ [][Next]_vars

TypeOK ==
    /\ pc \in Range(Statements) \cup { "synthesized", "deployed" }
    /\ env \in Environments
    /\ DOMAIN graph \subseteq
         { "vpc", "db_secret", "db_subnet_group", "db_security_group", "database",
           "cluster", "task_role", "task_definition", "log_group", "execution_role",
           "container", "service_sg", "target_group", "service", "db_secret_grant" }

----------------------------------------------------------------------------
(* Readings of a graph used by the properties. *)

Synthesized == pc \in { "synthesized", "deployed" }

FieldsOf(g) == UNION { DOMAIN g[r] : r \in DOMAIN g }

Places(g) == { x \in (DOMAIN g) \X FieldsOf(g) : x[2] \in DOMAIN g[x[1]] }

Strings(p) ==
    CASE p.t = "lit" -> { p.v }
      [] p.t = "rule" -> { p.protocol, p.description }
      [] p.t = "subnet" -> { p.name, p.subnet_type }
      [] OTHER -> {}

FieldStrings(v) == UNION { Strings(p) : p \in Range(v) }

GraphStrings(g) == UNION { FieldStrings(g[x[1]][x[2]]) : x \in Places(g) }

PartRefs(p) ==
    CASE p.t \in { "ref", "tok" } -> { p.id }
      [] p.t = "rule" -> IF p.peer.t \in { "ref", "tok" } THEN { p.peer.id } ELSE {}
      [] OTHER -> {}

FieldRefs(v) == UNION { PartRefs(p) : p \in Range(v) }

RefsOf(res) == UNION { FieldRefs(res[f]) : f \in DOMAIN res }

OfType(g, ty) == { r \in DOMAIN g : g[r].type = <<Lit(ty)>> }

SecretRefPlaces(g) ==
    { x \in Places(g) :
        FieldRefs(g[x[1]][x[2]]) \cap OfType(g, "secretsmanager.Secret") # {} }

JsonGet(tpl, key) ==
    tpl[(CHOOSE i \in DOMAIN tpl : i % 2 = 1 /\ tpl[i] = Lit(key)) + 1]

JdbcDatabaseName(url) == url[Len(url)]

Before(a, b) ==
    b \in Range(order) =>
        /\ a \in Range(order)
        /\ IndexOf(order, a) < IndexOf(order, b)

----------------------------------------------------------------------------
(* C1: the database's security group admits a flow only if the flow is     *)
(* inbound, comes from an address inside the VPC's CIDR block and is TCP   *)
(* to port 5432; inbound flows from outside the CIDR block, inbound flows  *)
(* to another port and all outbound flows are denied.                      *)
C1_DbGroupAdmitsOnlyVpcPostgres ==
    pc = "deployed" =>
        \A sg \in FieldRefs(resolved["database"].security_groups) :
            \A f \in Flows :
                Admits(resolved[sg], f) =>
                    /\ f.dir = "in"
                    /\ InCidr(f.addr, env.cidr)
                    /\ f.protocol = "tcp"
                    /\ f.port = 5432

C1_Witness ==
    /\ pc = "deployed"
    /\ \E f \in Flows : Admits(resolved["db_security_group"], f)
    /\ \E f \in Flows :
        /\ f.dir = "in" /\ f.protocol = "tcp" /\ f.port = 5432
        /\ ~InCidr(f.addr, env.cidr)
        /\ ~Admits(resolved["db_security_group"], f)

(* C2 as stated: one secret, referenced in exactly two places, the         *)
(* database's credentials and the container's environment.                 *)
C2_ExactlyTwoReferences ==
    Synthesized =>
        /\ Cardinality(OfType(template, "secretsmanager.Secret")) = 1
        /\ SecretRefPlaces(template) =
             { <<"database", "credentials">>, <<"container", "SONAR_JDBC_PASSWORD">> }

(* C2, amended: exactly one secret is generated, and it is referenced in   *)
(* exactly three places: the database's credentials, the container's       *)
(* environment and the permission grant.                                   *)
C2_ExactlyThreeReferences ==
    Synthesized =>
        /\ Cardinality(OfType(template, "secretsmanager.Secret")) = 1
        /\ SecretRefPlaces(template) =
             { <<"database", "credentials">>,
               <<"container", "SONAR_JDBC_PASSWORD">>,
               <<"db_secret_grant", "secret">> }

C2_Witness ==
    /\ pc = "synthesized"
    /\ <<"db_secret_grant", "secret">> \in SecretRefPlaces(template)
    /\ <<"database", "credentials">> \in SecretRefPlaces(template)

(* C3: no field of the declared graph holds the generated password, for    *)
(* any password the environment generates, and the synthesized graph is    *)
(* the same graph whatever the password; once realised, the password       *)
(* is found only in the container's environment, in the field that holds   *)
(* the deferred secret value, and not in the log configuration, the image  *)
(* or any other field of any resource.                                     *)
C3_PasswordOnlyInContainerEnvironment ==
    /\ GraphStrings(graph) \cap Passwords = {}
    /\ GraphStrings(template) \cap Passwords = {}
    /\ Synthesized => template = Build(deletion_protection)
    /\ pc = "deployed" =>
        \A x \in Places(resolved) :
            env.password \in FieldStrings(resolved[x[1]][x[2]]) =>
                /\ x = <<"container", "SONAR_JDBC_PASSWORD">>
                /\ template[x[1]][x[2]] = <<Tok("db_secret", "secret_value")>>

C3_Witness ==
    /\ pc = "deployed"
    /\ env.password \in FieldStrings(resolved["container"].SONAR_JDBC_PASSWORD)
    /\ env.password \notin FieldStrings(resolved["container"].logging)

(* C4: the host and port of SONAR_JDBC_URL are the database's deferred     *)
(* endpoint address and port, and once realised they are the address and   *)
(* port of the realised database.                                          *)
C4_JdbcUrlUsesDeferredEndpoint ==
    /\ "container" \in DOMAIN graph =>
        /\ graph["container"].SONAR_JDBC_URL[2] =
             Tok("database", "db_instance_endpoint_address")
        /\ graph["container"].SONAR_JDBC_URL[4] =
             Tok("database", "db_instance_endpoint_port")
        /\ "database" \in OfType(graph, "rds.DatabaseInstance")
    /\ pc = "deployed" =>
        /\ resolved["container"].SONAR_JDBC_URL[2] =
             resolved["database"].db_instance_endpoint_address[1]
        /\ resolved["container"].SONAR_JDBC_URL[4] =
             resolved["database"].db_instance_endpoint_port[1]
        /\ resolved["container"].SONAR_JDBC_URL[2] = Lit(env.address)
        /\ \A p \in Range(resolved["container"].SONAR_JDBC_URL) : p.t # "tok"

C4_Witness ==
    /\ pc = "deployed"
    /\ env.address = "db-2.rds.internal"
    /\ resolved["container"].SONAR_JDBC_URL[2] = Lit("db-2.rds.internal")
    /\ resolved["container"].SONAR_JDBC_URL[4] = Num(5432)

(* C5: the graph built with the deletion-protection flag flipped differs   *)
(* from the synthesized graph in the database's deletion_protection field  *)
(* and in nothing else.                                                    *)
C5_FlipChangesOnlyTheFlag ==
    Synthesized =>
        Build(~deletion_protection) =
            [template EXCEPT !["database"] =
                [@ EXCEPT !.deletion_protection = <<Bool(~deletion_protection)>>]]

C5_Witness ==
    /\ pc = "synthesized"
    /\ template["database"].deletion_protection = <<Bool(FALSE)>>
    /\ Build(TRUE)["database"].deletion_protection = <<Bool(TRUE)>>
    /\ Build(TRUE) # template

(* C6: at every step every declared resource references only resources    *)
(* already declared, and the statements run in the order network, subnet   *)
(* group and database security group, database, cluster, task definition,  *)
(* service, health check, permission grant, with the database before the   *)
(* container.                                                              *)
C6_DeclaredInDependencyOrder ==
    /\ \A r \in DOMAIN graph : RefsOf(graph[r]) \subseteq DOMAIN graph
    /\ Before("vpc", "db_subnet_group")
    /\ Before("vpc", "db_security_group")
    /\ Before("db_subnet_group", "database")
    /\ Before("db_security_group", "database")
    /\ Before("database", "cluster")
    /\ Before("cluster", "task_definition")
    /\ Before("task_definition", "service")
    /\ Before("service", "configure_health_check")
    /\ Before("configure_health_check", "grant_read")
    /\ Before("database", "container")

C6_Witness ==
    /\ pc = "service_sg"
    /\ "database" \in RefsOf(graph["container"])
    /\ IndexOf(order, "database") < IndexOf(order, "container")

(* C7: the only grant on the secret goes to the task role of the service's *)
(* task definition, and its actions are read-only.                         *)
ReadOnlyActions == { "secretsmanager:GetSecretValue", "secretsmanager:DescribeSecret" }

C7_GrantIsReadOnlyToServiceIdentity ==
    Synthesized =>
        /\ OfType(template, "iam.Grant") = { "db_secret_grant" }
        /\ \A gr \in OfType(template, "iam.Grant") :
            /\ template[gr].secret = <<Ref("db_secret")>>
            /\ template[gr].grantee = <<Ref("task_role")>>
            /\ template[template["service"].task_definition[1].id].task_role =
                 template[gr].grantee
            /\ FieldStrings(template[gr].actions) \subseteq ReadOnlyActions

C7_Witness ==
    /\ pc = "synthesized"
    /\ "db_secret_grant" \in DOMAIN template
    /\ FieldStrings(template["db_secret_grant"].actions) # {}

(* C8: the synthesized graph's health-check path is "/sessions/new"; once  *)
(* the override is applied no later step changes it, and the graph is not  *)
(* synthesized before the override is applied.                             *)
HealthCheckOverridden ==
    /\ "target_group" \in DOMAIN graph
    /\ graph["target_group"].health_check_path = <<Lit("/sessions/new")>>

C8_HealthCheckPathIsOverride ==
    /\ [](Synthesized =>
            /\ HealthCheckOverridden
            /\ template[template["service"].target_group[1].id].health_check_path =
                 <<Lit("/sessions/new")>>)
    /\ [](pc = "deployed" =>
            resolved["target_group"].health_check_path = <<Lit("/sessions/new")>>)
    /\ [][HealthCheckOverridden => HealthCheckOverridden']_vars

C8_Witness ==
    /\ pc = "deployed"
    /\ resolved["target_group"].health_check_path = <<Lit("/sessions/new")>>

(* C9 as stated: two subnet tiers, one public and one private with egress, *)
(* and in every environment at least 2 zones are used.                     *)
TwoSubnetTiers(vpcRes) ==
    /\ Len(vpcRes.subnet_configuration) = 2
    /\ { c.subnet_type : c \in Range(vpcRes.subnet_configuration) } =
         { "PUBLIC", "PRIVATE_WITH_EGRESS" }

C10_ConnectionParametersAgree ==
    Synthesized =>
        /\ JdbcDatabaseName(template["container"].SONAR_JDBC_URL) =
             template["database"].database_name[1]
        /\ template["container"].SONAR_JDBC_USERNAME =
             <<JsonGet(template["db_secret"].secret_string_template, "username")>>
        /\ \A sg \in FieldRefs(template["database"].security_groups) :
            /\ template[sg].ingress # <<>>
            /\ \A rule \in Range(template[sg].ingress) :
                rule.port = ListenPort(template["database"])

C10_Witness ==
    /\ pc = "synthesized"
    /\ JdbcDatabaseName(template["container"].SONAR_JDBC_URL) = Lit("sonarqube")
    /\ template["db_security_group"].ingress[1].port = 5432
====
